---- MODULE Spec2Model ----
(***************************************************************************)
(* rsgeo: geometry constructors (src/rust/src/lib.rs), the line            *)
(* segmentation functions split_line / segmentize and the element-wise     *)
(* queries over lists of geometries (src/rust/src/query.rs).               *)
(*                                                                         *)
(* Every exported function is a pure function of its arguments, so the     *)
(* state is the last call made by the host session (call) and its outcome  *)
(* (ret): either a returned value or a Rust panic.                         *)
(*                                                                         *)
(* f64 values are modelled as exact rationals <<num, den>> with den > 0 in *)
(* lowest terms, extended with +Inf = <<1,0>>, -Inf = <<-1,0>> and         *)
(* NaN = <<0,0>>, which is what IEEE division by zero produces.  Rounding  *)
(* is not modelled.  Input line strings have their vertices on a small     *)
(* integer grid and consecutive vertices at integer distance, so every     *)
(* length the algorithms compare is an exact rational.                     *)
(***************************************************************************)
EXTENDS Integers, Sequences, FiniteSets, TLC

VARIABLES call, ret
vars == <<call, ret>>

\* Bounds of the model.
MaxCoord == 2      \* vertices of a line string lie on the grid 0..MaxCoord x 0..1
MaxLen == 4        \* a line string has 0..MaxLen vertices
MaxN == 4          \* segmentize is called with n in 0..MaxN
FracDen == 4       \* split_line is called with fraction k/FracDen, k in 0..FracDen
MaxRows == 3       \* a coordinate table has 1..MaxRows rows
MaxVal == 1        \* table cells and rs_line arguments hold values 0..MaxVal
MaxArity == 3      \* the arguments of rs_line have 0..MaxArity elements
MaxRings == 3      \* rs_polygon is called with a list of 0..MaxRings rings
MaxRingOrigin == 2 \* the rings are the triangles with corner (k, k), k in 0..MaxRingOrigin
MaxList == 2       \* the lists and vectors of the element-wise queries have 0..MaxList elements

-----------------------------------------------------------------------------
(* f64 arithmetic *)

Abs(i) == IF i < 0 THEN -i ELSE i

Sign(i) == IF i < 0 THEN -1 ELSE IF i > 0 THEN 1 ELSE 0

RECURSIVE GCD(_, _)
GCD(a, b) == IF b = 0 THEN a ELSE GCD(b, a % b)

\* The f64 with value n/d; d = 0 gives an infinity or NaN.
Norm(n, d) ==
    IF d = 0 THEN <<Sign(n), 0>>
    ELSE LET g == GCD(Abs(n), Abs(d))
             s == Sign(d)
         IN  <<(s * n) \div g, (s * d) \div g>>

F(i) == <<i, 1>>
NaN == <<0, 0>>
IsNaN(a) == a = NaN
IsFinite(a) == a[2] # 0

FNeg(a) == <<-a[1], a[2]>>

FAdd(a, b) ==
    IF IsNaN(a) \/ IsNaN(b) THEN NaN
    ELSE IF ~IsFinite(a) /\ ~IsFinite(b) THEN (IF a = b THEN a ELSE NaN)
    ELSE IF ~IsFinite(a) THEN a
    ELSE IF ~IsFinite(b) THEN b
    ELSE Norm(a[1] * b[2] + b[1] * a[2], a[2] * b[2])

FSub(a, b) == FAdd(a, FNeg(b))

\* inf * 0 = NaN and inf * x = +-inf fall out of Norm.
FMul(a, b) == Norm(a[1] * b[1], a[2] * b[2])

\* x / 0 is +-inf, 0 / 0 is NaN.
FDiv(a, b) ==
    LET r == IF b[1] < 0 THEN <<-b[2], -b[1]>> ELSE <<b[2], b[1]>>
    IN  FMul(a, r)

\* a >= b; false when either side is NaN.
FGe(a, b) ==
    /\ ~IsNaN(a)
    /\ ~IsNaN(b)
    /\ IF IsFinite(a) /\ IsFinite(b) THEN a[1] * b[2] >= b[1] * a[2]
       ELSE IF ~IsFinite(a) THEN a[1] = 1 \/ a = b
       ELSE b[1] = -1

FLe(a, b) == FGe(b, a)

FLt(a, b) == ~IsNaN(a) /\ ~IsNaN(b) /\ ~FGe(a, b)

ISqrt(n) == CHOOSE r \in 0..n : r * r <= n /\ (r + 1) * (r + 1) > n

IsSquare(n) == ISqrt(n) * ISqrt(n) = n

\* Square root of a non-negative finite value; exact when it is rational.
FSqrt(a) == Norm(ISqrt(a[1]), ISqrt(a[2]))

Hypot(dx, dy) == FSqrt(FAdd(FMul(dx, dx), FMul(dy, dy)))

-----------------------------------------------------------------------------
(* geo-types values *)

Coord(x, y) == [x |-> x, y |-> y]

Line(s, e) == [start |-> s, end |-> e]

\* LineString::lines(): one Line per pair of consecutive coordinates.
LinesIter(x) == [i \in 1..(Len(x) - 1) |-> Line(x[i], x[i + 1])]

LineLength(seg) == Hypot(FSub(seg.end.x, seg.start.x), FSub(seg.end.y, seg.start.y))

RECURSIVE SumLengths(_, _)
SumLengths(lns, i) ==
    IF i > Len(lns) THEN F(0)
    ELSE FAdd(LineLength(lns[i]), SumLengths(lns, i + 1))

EuclideanLength(x) == SumLengths(LinesIter(x), 1)

None == [some |-> FALSE, pt |-> Coord(NaN, NaN)]
Some(p) == [some |-> TRUE, pt |-> p]

\* geo's Line::line_interpolate_point: fractions outside [0,1] are clamped,
\* a NaN fraction gives None.
LineInterpolatePoint(seg, t) ==
    IF FGe(t, F(0)) /\ FLe(t, F(1))
    THEN LET rx == FAdd(seg.start.x, FMul(FSub(seg.end.x, seg.start.x), t))
             ry == FAdd(seg.start.y, FMul(FSub(seg.end.y, seg.start.y), t))
         IN  IF IsFinite(rx) /\ IsFinite(ry) THEN Some(Coord(rx, ry)) ELSE None
    ELSE IF FLt(t, F(0)) THEN Some(seg.start)
    ELSE IF FGe(t, F(1)) THEN Some(seg.end)
    ELSE None

\* Outcome of a call: a returned value, or a panic (which extendr turns into
\* an R error).
Ok(v) == [ok |-> TRUE, val |-> v]
Panic == [ok |-> FALSE, val |-> <<>>]

-----------------------------------------------------------------------------
(* query.rs: split_line *)

\* The for loop of split_line over the segments left in the iterator, segment i
\* being the next one.
RECURSIVE SplitLoop(_, _, _, _, _)
SplitLoop(lns, i, cum_length, ln_vec, fractional_length) ==
    IF i > Len(lns) THEN Ok(ln_vec)
    ELSE LET segment == lns[i]
             length == LineLength(segment)
         IN  IF FGe(FAdd(cum_length, length), fractional_length)
             THEN LET segment_fraction == FDiv(FSub(fractional_length, cum_length), length)
                      endpoint == LineInterpolatePoint(segment, segment_fraction)
                  IN  IF endpoint.some THEN Ok(Append(ln_vec, endpoint.pt)) ELSE Panic
             ELSE SplitLoop(lns, i + 1, FAdd(cum_length, length),
                            Append(ln_vec, segment.start), fractional_length)

\* lns.nth(0) takes the first segment out of the iterator, so the loop starts
\* at the second one.
split_line(x, fraction) ==
    LET lns == LinesIter(x)
    IN  IF Len(lns) = 0 THEN Panic
        ELSE LET total_length == EuclideanLength(x)
                 fractional_length == FMul(total_length, fraction)
             IN  SplitLoop(lns, 2, F(0), <<lns[1].start>>, fractional_length)

-----------------------------------------------------------------------------
(* query.rs: segmentize *)

\* Seeding the next piece with the end of the segment instead of the boundary.
NextPieceStartAtEnd(endpoint, segment) == segment.end

\* The coordinate that seeds the next piece: ln_vec.push(endpoint).
NextPieceStart(endpoint, segment) == endpoint

\* The parameter measured from the start of the segment, before cum_length
\* took the segment in.
SegmentFractionFromStart(fractional_length, cum_length, length) ==
    FDiv(FSub(fractional_length, FSub(cum_length, length)), length)

\* segment_fraction, computed after cum_length += length.
SegmentFraction(fractional_length, cum_length, length) ==
    FDiv(FSub(fractional_length, cum_length), length)

RECURSIVE SegmentizeLoop(_, _, _, _, _, _, _, _)
SegmentizeLoop(lns, i, cum, fraction, fractional_length, ln_vec, res_coords, c) ==
    IF i > Len(lns) THEN Ok(Append(res_coords, ln_vec))
    ELSE LET segment == lns[i]
             length == LineLength(segment)
             cum_length == FAdd(cum, length)
         IN  IF FGe(cum_length, fractional_length)
             THEN LET segment_fraction == SegmentFraction(fractional_length, cum_length, length)
                      endpoint == LineInterpolatePoint(segment, segment_fraction)
                      fraction2 == FAdd(fraction, c.segment_prop)
                  IN  IF ~endpoint.some THEN Panic
                      ELSE SegmentizeLoop(lns, i + 1, cum_length, fraction2,
                                          FMul(c.total_length, fraction2),
                                          <<NextPieceStart(endpoint.pt, segment), segment.end>>,
                                          Append(res_coords, Append(ln_vec, endpoint.pt)), c)
             ELSE SegmentizeLoop(lns, i + 1, cum_length, fraction, fractional_length,
                                 Append(ln_vec, segment.end), res_coords, c)

segmentize(x, n) ==
    LET lns == LinesIter(x)
    IN  IF Len(lns) = 0 THEN Panic
        ELSE LET total_length == EuclideanLength(x)
                 segment_prop == FDiv(F(1), F(n))
                 c == [total_length |-> total_length, segment_prop |-> segment_prop]
             IN  SegmentizeLoop(lns, 2, F(0), segment_prop, FMul(total_length, segment_prop),
                                <<lns[1].start>>, <<>>, c)

-----------------------------------------------------------------------------
(* query.rs: element-wise queries *)

\* An R list of geometry handles: its first class and its elements.  An
\* element is NULL (null = TRUE) or a handle on the geometry geom.
RList(class, items) == [class |-> class, items |-> items]

Element(geom) == [null |-> FALSE, geom |-> geom]

\* Rfloat: a double or NA.
Rfloat(v) == [na |-> FALSE, v |-> v]
NaReal == [na |-> TRUE, v |-> NaN]

\* Robj results: NULL or a handle on a point.
RNull == [null |-> TRUE, pt |-> Coord(NaN, NaN)]
PointRobj(p) == [null |-> FALSE, pt |-> p]

Min(a, b) == IF a <= b THEN a ELSE b

FMax(a, b) == IF FGe(a, b) THEN a ELSE b
FMin(a, b) == IF FLe(a, b) THEN a ELSE b

\* Testing the first element only.
IsAbsentPairFirstOnly(xi, yi) == xi.null

\* xi.is_null() || yi.is_null()
IsAbsentPair(xi, yi) == xi.null \/ yi.null

\* fi.is_na() || fi.is_infinite() || fi.is_nan()
IsAbsentFraction(fi) == fi.na \/ ~IsFinite(fi.v) \/ IsNaN(fi.v)

\* geo's HaversineBearing, for two points of one meridian at whole degrees
\* of latitude: atan2(+0, c) in degrees, c having the sign of lat_b - lat_a
\* and being +0 when they are equal.
HaversineBearing(p1, p2) == IF FGe(p2.y, p1.y) THEN F(0) ELSE F(180)

\* geo's GeodesicBearing (the azimuth of the WGS84 inverse problem), for two
\* distinct points of one meridian: 0 northwards, 180 southwards.
GeodesicBearing(p1, p2) == IF FGe(p2.y, p1.y) THEN F(0) ELSE F(180)

Dot(a, b) == FAdd(FMul(a.x, b.x), FMul(a.y, b.y))

Delta(a, b) == Coord(FSub(b.x, a.x), FSub(b.y, a.y))

\* geo's ClosestPoint for a Line: None stands for Closest::Indeterminate,
\* Some for SinglePoint and Intersection alike.
LineClosestPoint(seg, p) ==
    LET direction_vector == Delta(seg.start, seg.end)
        to_p == Delta(seg.start, p)
        t == FDiv(Dot(to_p, direction_vector), Dot(direction_vector, direction_vector))
    IN  IF LineLength(seg) = F(0) THEN None
        ELSE IF FLt(t, F(0)) THEN Some(seg.start)
        ELSE IF FLt(F(1), t) THEN Some(seg.end)
        ELSE Some(Coord(FAdd(seg.start.x, FMul(t, direction_vector.x)),
                        FAdd(seg.start.y, FMul(t, direction_vector.y))))

\* geo's HaversineClosestPoint for a Point: the point itself, as an
\* Intersection when it equals p and as a SinglePoint otherwise.
PointHaversineClosestPoint(self, p) == Some(self)

\* geo's LineInterpolatePoint for a LineString: the for loop over the
\* segments, segment i being the next one.
RECURSIVE LineStringInterpolateLoop(_, _, _, _)
LineStringInterpolateLoop(lns, i, cum_length, fractional_length) ==
    IF i > Len(lns) THEN None
    ELSE LET length == LineLength(lns[i])
         IN  IF FGe(FAdd(cum_length, length), fractional_length)
             THEN LineInterpolatePoint(lns[i],
                      FDiv(FSub(fractional_length, cum_length), length))
             ELSE LineStringInterpolateLoop(lns, i + 1, FAdd(cum_length, length),
                                            fractional_length)

LineStringInterpolatePoint(l, fraction) ==
    LET clamped == IF FLt(fraction, F(0)) THEN F(0)
                   ELSE IF FLt(F(1), fraction) THEN F(1)
                   ELSE fraction
    IN  IF IsNaN(fraction) THEN None
        ELSE LineStringInterpolateLoop(LinesIter(l), 1, F(0),
                                       FMul(EuclideanLength(l), clamped))

\* geo's LineLocatePoint for a Line: the parameter of the projection of p,
\* clamped to [0, 1]; 0 on a line of length 0.
LineLocatePoint(seg, p) ==
    LET sp == Delta(seg.start, p)
        d == Delta(seg.start, seg.end)
        len == Dot(d, d)
    IN  IF len = F(0) THEN F(0)
        ELSE FMin(FMax(FDiv(Dot(sp, d), len), F(0)), F(1))

\* The square of geo's EuclideanDistance from a Line to a point.
LineDistanceSq(seg, p) ==
    LET d == Delta(seg.start, seg.end)
        sp == Delta(seg.start, p)
        ep == Delta(seg.end, p)
        len == Dot(d, d)
        r == FDiv(Dot(sp, d), len)
        s == FSub(FMul(sp.x, d.y), FMul(sp.y, d.x))
    IN  IF len = F(0) THEN Dot(sp, sp)
        ELSE IF FLe(r, F(0)) THEN Dot(sp, sp)
        ELSE IF FGe(r, F(1)) THEN Dot(ep, ep)
        ELSE FDiv(FMul(s, s), len)

\* geo's LineLocatePoint for a LineString: the for loop over the segments;
\* closest is the square of closest_dist_to_point.
RECURSIVE LineStringLocateLoop(_, _, _, _, _, _, _)
LineStringLocateLoop(lns, i, p, cum_length, closest, fraction, total_length) ==
    IF i > Len(lns) THEN fraction
    ELSE LET segment_distance == LineDistanceSq(lns[i], p)
             segment_length == LineLength(lns[i])
             segment_fraction == LineLocatePoint(lns[i], p)
             nearer == FLt(segment_distance, closest)
         IN  LineStringLocateLoop(lns, i + 1, p, FAdd(cum_length, segment_length),
                 IF nearer THEN segment_distance ELSE closest,
                 IF nearer
                 THEN FDiv(FAdd(cum_length, FMul(segment_fraction, segment_length)),
                           total_length)
                 ELSE fraction,
                 total_length)

LineStringLocatePoint(l, p) ==
    LET total_length == EuclideanLength(l)
    IN  IF total_length = F(0) THEN F(0)
        ELSE LineStringLocateLoop(LinesIter(l), 1, p, F(0), <<1, 0>>, F(0), total_length)

\* x.iter().zip(y.iter()): zip stops at the end of the shorter input.
ZipLen(xs, ys) == Min(Len(xs), Len(ys))

\* map(..).collect() over the results of the closure, one per pair; a panic
\* in the closure ends the call.
Collect(rs) ==
    IF \A i \in DOMAIN rs : rs[i].ok THEN Ok([i \in DOMAIN rs |-> rs[i].val]) ELSE Panic

\* collect::<List>().set_class(geom_class("point"))
PointList(r) == IF r.ok THEN Ok(RList("rs_POINT", r.val)) ELSE Panic

\* Geom::try_from(NULL).unwrap() panics.
Unwrapped(xi, yi) == ~xi.null /\ ~yi.null

\* The closures of the maps: the result for one pair of elements.
bearing_haversine_pair(xi, yi) ==
    IF IsAbsentPair(xi, yi) THEN Ok(NaReal)
    ELSE IF ~Unwrapped(xi, yi) THEN Panic
    ELSE Ok(Rfloat(HaversineBearing(xi.geom, yi.geom)))

bearing_haversine(x, y) ==
    IF x.class # "rs_POINT" \/ y.class # "rs_POINT" THEN Panic
    ELSE Collect([i \in 1..ZipLen(x.items, y.items) |->
                     bearing_haversine_pair(x.items[i], y.items[i])])

bearing_geodesic_pair(xi, yi) ==
    IF IsAbsentPair(xi, yi) THEN Ok(NaReal)
    ELSE IF ~Unwrapped(xi, yi) THEN Panic
    ELSE Ok(Rfloat(GeodesicBearing(xi.geom, yi.geom)))

bearing_geodesic(x, y) ==
    IF x.class # "rs_POINT" \/ y.class # "rs_POINT" THEN Panic
    ELSE Collect([i \in 1..ZipLen(x.items, y.items) |->
                     bearing_geodesic_pair(x.items[i], y.items[i])])

\* match on the result of the library: a point gives a handle on it,
\* Closest::Indeterminate or None gives NULL.
ClosestRobj(closest) == IF closest.some THEN PointRobj(closest.pt) ELSE RNull

closest_point_pair(xi, yi) ==
    IF IsAbsentPair(xi, yi) THEN Ok(RNull)
    ELSE IF ~Unwrapped(xi, yi) THEN Panic
    ELSE Ok(ClosestRobj(LineClosestPoint(xi.geom, yi.geom)))

closest_point(x, y) ==
    IF y.class # "rs_POINT" THEN Panic
    ELSE PointList(Collect([i \in 1..ZipLen(x.items, y.items) |->
                               closest_point_pair(x.items[i], y.items[i])]))

closest_point_haversine_pair(xi, yi) ==
    IF IsAbsentPair(xi, yi) THEN Ok(RNull)
    ELSE IF ~Unwrapped(xi, yi) THEN Panic
    ELSE Ok(ClosestRobj(PointHaversineClosestPoint(xi.geom, yi.geom)))

closest_point_haversine(x, y) ==
    IF y.class # "rs_POINT" THEN Panic
    ELSE PointList(Collect([i \in 1..ZipLen(x.items, y.items) |->
                               closest_point_haversine_pair(x.items[i], y.items[i])]))

line_interpolate_point_pair(xi, fi) ==
    IF xi.null \/ IsAbsentFraction(fi) THEN Ok(RNull)
    ELSE Ok(ClosestRobj(LineStringInterpolatePoint(xi.geom, fi.v)))

line_interpolate_point(x, fraction) ==
    IF x.class # "rs_LINESTRING" THEN Panic
    ELSE PointList(Collect([i \in 1..ZipLen(x.items, fraction) |->
                               line_interpolate_point_pair(x.items[i], fraction[i])]))

locate_point_on_line_pair(xi, yi) ==
    IF IsAbsentPair(xi, yi) THEN Ok(NaReal)
    ELSE IF ~Unwrapped(xi, yi) THEN Panic
    ELSE Ok(Rfloat(LineStringLocatePoint(xi.geom, yi.geom)))

locate_point_on_line(x, y) ==
    IF x.class # "rs_LINESTRING" THEN Panic
    ELSE IF y.class # "rs_POINT" THEN Panic
    ELSE Collect([i \in 1..ZipLen(x.items, y.items) |->
                     locate_point_on_line_pair(x.items[i], y.items[i])])

-----------------------------------------------------------------------------
(* lib.rs: constructors *)

\* An R matrix: nrow x ncol doubles stored column-major; x[[i, j]] with
\* 0-based i, j.
RMatrix(nrow, ncol, data) == [nrow |-> nrow, ncol |-> ncol, data |-> data]

At(x, i, j) == F(x.data[i + x.nrow * j + 1])

\* The handle handed back to R: an external pointer with a class attribute.
Handle(class, geom) == [class |-> class, geom |-> geom]

\* for i in 0..(n - 1): the rows 0 .. n-2.
matrix_to_coords(x) ==
    IF x.ncol # 2 THEN Panic
    ELSE Ok([i \in 1..(x.nrow - 1) |-> Coord(At(x, i - 1, 0), At(x, i - 1, 1))])

rs_linestring(x) ==
    LET coords == matrix_to_coords(x)
    IN  IF coords.ok THEN Ok(Handle("linestring", coords.val)) ELSE Panic

\* Checking the length of the first argument only.
LengthsOkFirstOnly(l1, l2) == l1 = 2

\* The two length checks of rs_line.

LengthsOk(l1, l2) == l1 = 2 /\ l2 = 2

\* Indexing a Doubles past its end panics.
rs_line(xy1, xy2) ==
    IF ~LengthsOk(Len(xy1), Len(xy2)) THEN Panic
    ELSE IF Len(xy1) < 2 \/ Len(xy2) < 2 THEN Panic
    ELSE LET c1 == Coord(F(xy1[1]), F(xy1[2]))
             c2 == Coord(F(xy2[1]), F(xy2[2]))
         IN  Ok(Handle("line", Line(c1, c2)))

\* The loop of rs_polygon, for i in 1..(n - 1): list elements 1 .. n-2
\* (0-based), element i being x[i + 1] here.
RECURSIVE PolygonInteriors(_, _, _)
PolygonInteriors(x, i, linestrings) ==
    IF i >= Len(x) - 1 THEN Ok(linestrings)
    ELSE LET coords == matrix_to_coords(x[i + 1])
         IN  IF coords.ok THEN PolygonInteriors(x, i + 1, Append(linestrings, coords.val))
             ELSE Panic

\* x[0] of an empty list panics.
rs_polygon(x) ==
    IF Len(x) = 0 THEN Panic
    ELSE LET exterior == matrix_to_coords(x[1])
             interiors == IF Len(x) > 1 THEN PolygonInteriors(x, 1, <<>>) ELSE Ok(<<>>)
         IN  IF exterior.ok /\ interiors.ok
             THEN Ok(Handle("polygon", [exterior |-> exterior.val, interiors |-> interiors.val]))
             ELSE Panic

-----------------------------------------------------------------------------
(* Inputs *)

GridCoords == {Coord(F(i), F(j)) : i \in 0..MaxCoord, j \in 0..1}

SqDist(a, b) == (a.x[1] - b.x[1]) * (a.x[1] - b.x[1]) + (a.y[1] - b.y[1]) * (a.y[1] - b.y[1])

\* The line strings of k vertices over the grid whose segments all have an
\* integer length (a repeated vertex, length 0, is allowed).
ExactSegments(l) == \A i \in 1..(Len(l) - 1) : IsSquare(SqDist(l[i], l[i + 1]))

LineStrings(k) == {l \in [1..k -> GridCoords] : ExactSegments(l)}

Fractions == {Norm(k, FracDen) : k \in 0..FracDen}

\* The tables of nrow rows and ncol columns.
Tables(nrow, ncol) == {RMatrix(nrow, ncol, data) : data \in [1..(nrow * ncol) -> 0..MaxVal]}

Doubles(k) == [1..k -> 0..MaxVal]

\* The closed triangle (k,k), (k+1,k), (k,k+1), (k,k) as a 4 x 2 table.
RingTable(k) == RMatrix(4, 2, <<k, k + 1, k, k, k, k, k + 1, k>>)

RingTables == {RingTable(k) : k \in 0..MaxRingOrigin}

RingLists(n) == [1..n -> RingTables]

\* The elements of the lists handed to the element-wise queries: NULL
\* elements carry a placeholder geometry of the kind of the list.
NullPoint == [null |-> TRUE, geom |-> Coord(NaN, NaN)]
NullLine == [null |-> TRUE, geom |-> Line(Coord(NaN, NaN), Coord(NaN, NaN))]
NullLineString == [null |-> TRUE, geom |-> <<>>]

\* Two points of the meridian 0 are told apart by their latitude.
BearingFrom == {Coord(F(0), F(1))}
BearingTo == {Coord(F(0), F(0)), Coord(F(0), F(2))}

QueryPoints == {Coord(F(0), F(0)), Coord(F(1), F(1))}

QueryLines == {Line(Coord(F(0), F(0)), Coord(F(2), F(0))),
               Line(Coord(F(1), F(1)), Coord(F(1), F(1)))}

QueryLineStrings == {<<Coord(F(0), F(0)), Coord(F(1), F(0)), Coord(F(1), F(1))>>,
                     <<Coord(F(0), F(0)), Coord(F(0), F(0))>>}

QueryFractions == {NaReal, Rfloat(Norm(3, 4)), Rfloat(Norm(3, 2)), Rfloat(<<1, 0>>)}

PointLists(pts, n) ==
    {RList("rs_POINT", items) : items \in [1..n -> {NullPoint} \cup {Element(p) : p \in pts}]}

LineLists(n) ==
    {RList("rs_LINE", items) : items \in [1..n -> {NullLine} \cup {Element(l) : l \in QueryLines}]}

LineStringLists(n) ==
    {RList("rs_LINESTRING", items) :
        items \in [1..n -> {NullLineString} \cup {Element(l) : l \in QueryLineStrings}]}

FractionVectors(n) == [1..n -> QueryFractions]

-----------------------------------------------------------------------------
(* The session *)

NoCall == [op |-> "none"]

Init ==
    /\ call = NoCall
    /\ ret = Ok(<<>>)

CallSplitLine ==
    /\ call = NoCall
    /\ \E k \in 0..MaxLen : \E x \in LineStrings(k) : \E fraction \in Fractions :
          /\ call' = [op |-> "split_line", x |-> x, fraction |-> fraction]
          /\ ret' = split_line(x, fraction)

CallSegmentize ==
    /\ call = NoCall
    /\ \E k \in 0..MaxLen : \E x \in LineStrings(k) : \E n \in 0..MaxN :
          /\ call' = [op |-> "segmentize", x |-> x, n |-> n]
          /\ ret' = segmentize(x, n)

\* The session restricted to calls of one function of query.rs.
SpecSplitLine == Init /\ [][CallSplitLine]_vars

SpecSegmentize == Init /\ [][CallSegmentize]_vars

CallRsLinestring ==
    /\ call = NoCall
    \* With no rows, n - 1 underflows: a panic in a debug build, a wrapped
    \* loop bound in a release build; that case is left out.
    /\ \E nrow \in 1..MaxRows, ncol \in 1..3 : \E x \in Tables(nrow, ncol) :
          /\ call' = [op |-> "rs_linestring", x |-> x]
          /\ ret' = rs_linestring(x)

CallRsLine ==
    /\ call = NoCall
    /\ \E l1 \in 0..MaxArity, l2 \in 0..MaxArity : \E xy1 \in Doubles(l1), xy2 \in Doubles(l2) :
          /\ call' = [op |-> "rs_line", xy1 |-> xy1, xy2 |-> xy2]
          /\ ret' = rs_line(xy1, xy2)

CallRsPolygon ==
    /\ call = NoCall
    /\ \E n \in 0..MaxRings : \E x \in RingLists(n) :
          /\ call' = [op |-> "rs_polygon", x |-> x]
          /\ ret' = rs_polygon(x)

NextLib == CallRsLinestring \/ CallRsLine \/ CallRsPolygon

\* The session restricted to the constructors of lib.rs.
SpecLib == Init /\ [][NextLib]_vars

\* The element-wise queries.  Each is also called once with a list of the
\* wrong class.
CallBearingHaversine ==
    /\ call = NoCall
    /\ \E nx \in 0..MaxList, ny \in 0..MaxList :
          \/ \E x \in PointLists(BearingFrom, nx), y \in PointLists(BearingTo, ny) :
                /\ call' = [op |-> "bearing_haversine", x |-> x, y |-> y]
                /\ ret' = bearing_haversine(x, y)
          \/ \E x \in LineStringLists(nx), y \in PointLists(BearingTo, ny) :
                /\ call' = [op |-> "bearing_haversine", x |-> x, y |-> y]
                /\ ret' = bearing_haversine(x, y)

CallBearingGeodesic ==
    /\ call = NoCall
    /\ \E nx \in 0..MaxList, ny \in 0..MaxList :
          \/ \E x \in PointLists(BearingFrom, nx), y \in PointLists(BearingTo, ny) :
                /\ call' = [op |-> "bearing_geodesic", x |-> x, y |-> y]
                /\ ret' = bearing_geodesic(x, y)
          \/ \E x \in PointLists(BearingFrom, nx), y \in LineStringLists(ny) :
                /\ call' = [op |-> "bearing_geodesic", x |-> x, y |-> y]
                /\ ret' = bearing_geodesic(x, y)

CallClosestPoint ==
    /\ call = NoCall
    /\ \E nx \in 0..MaxList, ny \in 0..MaxList :
          \/ \E x \in LineLists(nx), y \in PointLists(QueryPoints, ny) :
                /\ call' = [op |-> "closest_point", x |-> x, y |-> y]
                /\ ret' = closest_point(x, y)
          \/ \E x \in LineLists(nx), y \in LineStringLists(ny) :
                /\ call' = [op |-> "closest_point", x |-> x, y |-> y]
                /\ ret' = closest_point(x, y)

CallClosestPointHaversine ==
    /\ call = NoCall
    /\ \E nx \in 0..MaxList, ny \in 0..MaxList :
          \/ \E x \in PointLists(QueryPoints, nx), y \in PointLists(QueryPoints, ny) :
                /\ call' = [op |-> "closest_point_haversine", x |-> x, y |-> y]
                /\ ret' = closest_point_haversine(x, y)
          \/ \E x \in PointLists(QueryPoints, nx), y \in LineStringLists(ny) :
                /\ call' = [op |-> "closest_point_haversine", x |-> x, y |-> y]
                /\ ret' = closest_point_haversine(x, y)

CallLineInterpolatePoint ==
    /\ call = NoCall
    /\ \E nx \in 0..MaxList, ny \in 0..MaxList :
          \/ \E x \in LineStringLists(nx), fraction \in FractionVectors(ny) :
                /\ call' = [op |-> "line_interpolate_point", x |-> x, y |-> fraction]
                /\ ret' = line_interpolate_point(x, fraction)
          \/ \E x \in PointLists(QueryPoints, nx), fraction \in FractionVectors(ny) :
                /\ call' = [op |-> "line_interpolate_point", x |-> x, y |-> fraction]
                /\ ret' = line_interpolate_point(x, fraction)

CallLocatePointOnLine ==
    /\ call = NoCall
    /\ \E nx \in 0..MaxList, ny \in 0..MaxList :
          \/ \E x \in LineStringLists(nx), y \in PointLists(QueryPoints, ny) :
                /\ call' = [op |-> "locate_point_on_line", x |-> x, y |-> y]
                /\ ret' = locate_point_on_line(x, y)
          \/ \E x \in LineStringLists(nx), y \in LineStringLists(ny) :
                /\ call' = [op |-> "locate_point_on_line", x |-> x, y |-> y]
                /\ ret' = locate_point_on_line(x, y)

NextElementwise ==
    \/ CallBearingHaversine
    \/ CallBearingGeodesic
    \/ CallClosestPoint
    \/ CallClosestPointHaversine
    \/ CallLineInterpolatePoint
    \/ CallLocatePointOnLine

\* The session restricted to the element-wise queries of query.rs.
SpecElementwise == Init /\ [][NextElementwise]_vars

Next == CallSplitLine \/ CallSegmentize \/ NextLib \/ NextElementwise

Spec == Init /\ [][Next]_vars

-----------------------------------------------------------------------------
(* Vocabulary of the properties *)

\* Every row of a table, in row order, column 0 as x and column 1 as y.
AllRows(x) == [i \in 1..x.nrow |-> Coord(At(x, i - 1, 0), At(x, i - 1, 1))]

\* Exact Euclidean lengths.  A squared distance p/q has the square root
\* (r/q) * sqrt(s) where p*q = r*r*s and s is square-free; a length is the
\* function from the square-free s met to the sum of their coefficients, and
\* two lengths are equal exactly when these functions are.
LargestSquareRoot(m) ==
    CHOOSE r \in 1..m : m % (r * r) = 0 /\ \A q \in (r + 1)..m : m % (q * q) # 0

SurdTerm(a, b) ==
    LET dx == FSub(b.x, a.x)
        dy == FSub(b.y, a.y)
        d == FAdd(FMul(dx, dx), FMul(dy, dy))
        m == d[1] * d[2]
    IN  IF m = 0 THEN <<1, F(0)>>
        ELSE <<m \div (LargestSquareRoot(m) * LargestSquareRoot(m)),
               Norm(LargestSquareRoot(m), d[2])>>

TermsOf(path) == [i \in 1..(Len(path) - 1) |-> SurdTerm(path[i], path[i + 1])]

RECURSIVE TermsOfAll(_, _)
TermsOfAll(pieces, i) ==
    IF i > Len(pieces) THEN <<>> ELSE TermsOf(pieces[i]) \o TermsOfAll(pieces, i + 1)

RECURSIVE Coefficient(_, _, _)
Coefficient(terms, s, i) ==
    IF i > Len(terms) THEN F(0)
    ELSE FAdd(IF terms[i][1] = s THEN terms[i][2] ELSE F(0), Coefficient(terms, s, i + 1))

SurdSum(terms) ==
    LET surds == {terms[i][1] : i \in {j \in 1..Len(terms) : terms[j][2] # F(0)}}
    IN  [s \in surds |-> Coefficient(terms, s, 1)]

PathLength(path) == SurdSum(TermsOf(path))

PiecesLength(pieces) == SurdSum(TermsOfAll(pieces, 1))

\* The rational r as a length.
RationalLength(r) == SurdSum(<<<<1, r>>>>)

\* The point at parameter t of a segment, t in [0,1]; on a segment of length
\* 0 it is the segment's start.
Lerp(seg, t) ==
    IF IsFinite(t) THEN LineInterpolatePoint(seg, t).pt ELSE seg.start

\* The prefix of arc length target of the path x, walked from the first
\* segment: the coordinates passed, then the point interpolated on the first
\* segment i with cum + L >= target.
RECURSIVE PrefixFrom(_, _, _, _, _)
PrefixFrom(x, i, cum, out, target) ==
    IF i >= Len(x) THEN out
    ELSE LET seg == Line(x[i], x[i + 1])
             L == LineLength(seg)
         IN  IF FGe(FAdd(cum, L), target)
             THEN Append(out, Lerp(seg, FDiv(FSub(target, cum), L)))
             ELSE PrefixFrom(x, i + 1, FAdd(cum, L), Append(out, x[i + 1]), target)

Prefix(x, fraction) == PrefixFrom(x, 1, F(0), <<x[1]>>, FMul(EuclideanLength(x), fraction))

\* The element-wise queries, and those of them that return a list of
\* handles rather than a vector of doubles.
ElementwiseOps == {"bearing_haversine", "bearing_geodesic", "closest_point",
                   "closest_point_haversine", "line_interpolate_point",
                   "locate_point_on_line"}

ListResultOps == {"closest_point", "closest_point_haversine", "line_interpolate_point"}

Apply(op, x, y) ==
    CASE op = "bearing_haversine" -> bearing_haversine(x, y)
      [] op = "bearing_geodesic" -> bearing_geodesic(x, y)
      [] op = "closest_point" -> closest_point(x, y)
      [] op = "closest_point_haversine" -> closest_point_haversine(x, y)
      [] op = "line_interpolate_point" -> line_interpolate_point(x, y)
      [] op = "locate_point_on_line" -> locate_point_on_line(x, y)

\* The inputs of the call have the classes its query asks for.
ClassesAccepted ==
    CASE call.op \in {"bearing_haversine", "bearing_geodesic"} ->
            call.x.class = "rs_POINT" /\ call.y.class = "rs_POINT"
      [] call.op \in {"closest_point", "closest_point_haversine"} ->
            call.y.class = "rs_POINT"
      [] call.op = "line_interpolate_point" -> call.x.class = "rs_LINESTRING"
      [] call.op = "locate_point_on_line" ->
            call.x.class = "rs_LINESTRING" /\ call.y.class = "rs_POINT"

\* The elements of the second input of the call.
SecondItems == IF call.op = "line_interpolate_point" THEN call.y ELSE call.y.items

\* Entry i of the first or of the second input is absent (NULL, or NA for a
\* fraction).
AbsentInput(i) ==
    \/ call.x.items[i].null
    \/ IF call.op = "line_interpolate_point" THEN call.y[i].na ELSE call.y.items[i].null

ResultItems(r) == IF call.op \in ListResultOps THEN r.val.items ELSE r.val

AbsentResult(v) == IF call.op \in ListResultOps THEN v.null ELSE v.na

\* The query of the call applied to position i of its inputs alone.
Alone(i) ==
    Apply(call.op, RList(call.x.class, <<call.x.items[i]>>),
          IF call.op = "line_interpolate_point" THEN <<call.y[i]>>
          ELSE RList(call.y.class, <<call.y.items[i]>>))

-----------------------------------------------------------------------------
(* Properties *)

\* C1: a 2-column table with N rows is converted to exactly N coordinates,
\* coordinate i being (table[i,0], table[i,1]), in row order.
C1_EveryRowConverted ==
    (call.op = "rs_linestring" /\ call.x.ncol = 2) =>
        (ret.ok /\ ret.val.class = "linestring" /\ ret.val.geom = AllRows(call.x))

\* C2: for a line string of at least 2 coordinates and a fraction in [0,1],
\* split_line returns the prefix of arc length fraction * totalLength,
\* counted from the first segment.
C2_SplitLineIsPrefix ==
    (call.op = "split_line" /\ Len(call.x) >= 2) =>
        (ret.ok /\ ret.val = Prefix(call.x, call.fraction))

\* C3: for a line string of positive length and n >= 1, segmentize returns
\* exactly n pieces, each of arc length totalLength / n.
C3_NEqualPieces ==
    (call.op = "segmentize" /\ Len(call.x) >= 2 /\ call.n >= 1
       /\ EuclideanLength(call.x) # F(0)) =>
        /\ ret.ok
        /\ Len(ret.val) = call.n
        /\ \A i \in 1..Len(ret.val) :
              PathLength(ret.val[i]) = RationalLength(FDiv(EuclideanLength(call.x), F(call.n)))

\* C4: for a line string of at least 2 coordinates and n >= 1, the lengths of
\* the pieces of segmentize sum to the length of the line.
C4_LengthPreserved ==
    (call.op = "segmentize" /\ Len(call.x) >= 2 /\ call.n >= 1) =>
        (ret.ok /\ PiecesLength(ret.val) = PathLength(call.x))

\* C5: whenever segmentize returns pieces i and i+1, the last coordinate of
\* piece i is the first coordinate of piece i+1.
C5_Continuity ==
    (call.op = "segmentize" /\ ret.ok) =>
        \A i \in 1..(Len(ret.val) - 1) :
            /\ Len(ret.val[i]) >= 1
            /\ Len(ret.val[i + 1]) >= 1
            /\ ret.val[i][Len(ret.val[i])] = ret.val[i + 1][1]

\* A call of segmentize with n >= 1 that returned three or more pieces.
C5_Witness ==
    /\ call.op = "segmentize"
    /\ call.n >= 1
    /\ ret.ok
    /\ Len(ret.val) >= 3

\* C6: segmentize(line, 1) of a line string of at least 2 coordinates returns
\* one piece, with the coordinate sequence of the line.
C6_OnePieceIsTheLine ==
    (call.op = "segmentize" /\ Len(call.x) >= 2 /\ call.n = 1) =>
        (ret.ok /\ ret.val = <<call.x>>)

\* C7: segmentize(L, 0) ends in an error, for every L.
C7_ZeroPiecesFails ==
    (call.op = "segmentize" /\ call.n = 0) => ~ret.ok

\* C8: split_line(L, 1.0) of a line string of at least 2 coordinates returns a
\* line string of the length of L that ends at the last coordinate of L.
C8_WholeLineAtOne ==
    (call.op = "split_line" /\ Len(call.x) >= 2 /\ call.fraction = F(1)) =>
        /\ ret.ok
        /\ Len(ret.val) >= 1
        /\ ret.val[Len(ret.val)] = call.x[Len(call.x)]
        /\ PathLength(ret.val) = PathLength(call.x)

\* C9: rs_line fails when either argument does not have exactly 2 elements,
\* and otherwise returns a handle of class "line" on the line from
\* (a[0], a[1]) to (b[0], b[1]).
C9_LineShape ==
    call.op = "rs_line" =>
        IF Len(call.xy1) = 2 /\ Len(call.xy2) = 2
        THEN ret = Ok(Handle("line", Line(Coord(F(call.xy1[1]), F(call.xy1[2])),
                                          Coord(F(call.xy2[1]), F(call.xy2[2])))))
        ELSE ~ret.ok

\* rs_line called with a 2-element first and a 3-element second argument.
C9_Witness ==
    /\ call.op = "rs_line"
    /\ Len(call.xy1) = 2
    /\ Len(call.xy2) = 3
    /\ ~ret.ok

\* C10: the polygon built from a non-empty list of n rings has ring 0 as its
\* exterior and rings 1..n-1, all of them and in order, as its interiors.
C10_AllRingsKept ==
    (call.op = "rs_polygon" /\ Len(call.x) >= 1) =>
        /\ ret.ok
        /\ ret.val.class = "polygon"
        /\ ret.val.geom.exterior = AllRows(call.x[1])
        /\ ret.val.geom.interiors = [i \in 1..(Len(call.x) - 1) |-> AllRows(call.x[i + 1])]

\* C11: an element-wise query over two inputs of equal length and of the
\* classes it asks for returns without an error a result of that length;
\* where entry i of either input is absent, entry i of the result is absent;
\* and entry i of the result is what the query returns for position i alone.
C11_AbsentPropagates ==
    (call.op \in ElementwiseOps /\ ClassesAccepted
       /\ Len(call.x.items) = Len(SecondItems)) =>
        /\ ret.ok
        /\ Len(ResultItems(ret)) = Len(call.x.items)
        /\ \A i \in 1..Len(call.x.items) :
              /\ AbsentInput(i) => AbsentResult(ResultItems(ret)[i])
              /\ Alone(i).ok
              /\ ResultItems(ret)[i] = ResultItems(Alone(i))[1]

\* An element-wise query returned for two inputs of equal length where one
\* position has an absent entry in the second input only and another
\* position has a result that is not absent.
C11_Witness ==
    /\ call.op \in ElementwiseOps
    /\ ClassesAccepted
    /\ Len(call.x.items) = Len(SecondItems)
    /\ ret.ok
    /\ \E i, j \in 1..Len(call.x.items) :
          /\ ~call.x.items[i].null
          /\ AbsentInput(i)
          /\ AbsentResult(ResultItems(ret)[i])
          /\ ~AbsentInput(j)
          /\ ~AbsentResult(ResultItems(ret)[j])

\* C12: whenever segmentize returns, every coordinate of every returned
\* piece is one of the coordinates of the input line.
C12_OnlyInputCoordinates ==
    (call.op = "segmentize" /\ ret.ok) =>
        \A i \in 1..Len(ret.val) : \A j \in 1..Len(ret.val[i]) :
            \E k \in 1..Len(call.x) : ret.val[i][j] = call.x[k]

\* segmentize returned two or more pieces for a line whose n-th part has a
\* length that is not a whole number, so that a boundary at that arc length
\* would lie strictly inside a segment.
C12_Witness ==
    /\ call.op = "segmentize"
    /\ call.n >= 2
    /\ ret.ok
    /\ Len(ret.val) >= 2
    /\ FDiv(EuclideanLength(call.x), F(call.n))[2] > 1

====
